---- MODULE Spec2Model ----
(***************************************************************************)
(* Model of openplantbook_sdk/sdk.py: the OpenPlantBookApi client.         *)
(*                                                                         *)
(* One client object (client_id, secret, base_url, token) is shared by a   *)
(* set of asyncio tasks.  A task runs one coroutine of the client; it is   *)
(* suspended exactly while it awaits the transport (the token exchange, a  *)
(* GET, a POST), and other tasks and the clock may move while it is        *)
(* suspended.  A caller that awaits one coroutine after the other is the   *)
(* run in which a task starts when the one before it has ended.            *)
(*                                                                         *)
(* Python values: a dict is a function from its keys; None is the value    *)
(* None where a dict is expected and NoneStr where a scalar is expected.   *)
(* Time is in whole seconds.                                               *)
(***************************************************************************)
EXTENDS Integers, Sequences, FiniteSets, TLC

\* ------------------------------------------------------------------ bounds
\* how many coroutines are started, each in a task of its own
MaxCalls == 2
\* how often the clock advances
MaxTicks == 1

\* --------------------------------------------------------- python values
None == [none |-> TRUE]
NoneStr == "<None>"
EmptyDict == [k \in {} |-> ""]

\* bool(d) of a dict-or-None
TruthyDict(d) == d # None /\ DOMAIN d # {}
\* bool(s) of a str-or-None
TruthyStr(s) == s # NoneStr /\ s # ""

\* d.get(k) for a scalar-valued dict
Get(d, k) == IF k \in DOMAIN d THEN d[k] ELSE NoneStr

\* dict(d) with d[k] = v assigned afterwards
SetItem(d, k, v) == [x \in DOMAIN d \cup {k} |-> IF x = k THEN v ELSE d[x]]

\* d.update(e): the keys of e win
Update(d, e) == [x \in DOMAIN d \cup DOMAIN e |-> IF x \in DOMAIN e THEN e[x] ELSE d[x]]

\* ------------------------------------------------------------- datetime
\* timedelta(minutes=m) and timedelta(seconds=s), in seconds
Minutes(m) == m * 60
Seconds(s) == s

\* datetime.isoformat(): the positional fields of the timestamp
Isoformat(t) == <<t \div 3600, (t \div 60) % 60, t % 60>>

\* datetime.fromisoformat()
Fromisoformat(s) == s[1] * 3600 + s[2] * 60 + s[3]

\* the freshness window of _async_get_token, in minutes
WindowMinutes == 5

\* the clock may advance by these amounts while nothing else happens
TickAmounts == {1}

\* ---------------------------------------------------------------- tasks
Tasks == 1..MaxCalls

VARIABLES
    client_id,   \* self.client_id
    secret,      \* self.secret
    base_url,    \* self._PLANTBOOK_BASEURL
    token,       \* self.token: None or the stored token dict
    now,         \* datetime.now()
    ticks,       \* how often the clock advanced
    calls,       \* how many coroutines were started
    issued,      \* how many complete grants the server handed out
    pc,          \* per task: where its coroutine is
    call,        \* per task: the coroutine and its arguments
    hdr,         \* per task: the headers of its ClientSession
    req,         \* per task: the request it dispatched last
    idx,         \* per task: register's position in sensor_pid_map
    results,     \* per task: register's results list
    exch,        \* per task: token exchanges posted by this coroutine
    sessions,    \* per task: ClientSessions created by this coroutine
    nreq,        \* per task: operation requests dispatched by this coroutine
    last,        \* the coroutine that ended in the last step, if one did: its call,
                 \* its outcome and its counts, as its caller gets them
    granted      \* the last complete grant of the server: its body, and when it arrived

vars == <<client_id, secret, base_url, token, now, ticks, calls, issued, pc, call,
          hdr, req, idx, results, exch, sessions, nreq, last, granted>>

clientVars == <<client_id, secret, base_url>>

\* ----------------------------------------------------------- exceptions
\* the failures the transport raises, as aiohttp names them
TransportExcs == {"ServerTimeoutError", "TooManyRedirects", "ClientError"}

\* isinstance(e, aiohttp.ClientError)
IsClientError(e) ==
    e \in {"ClientError", "ServerTimeoutError", "TooManyRedirects", "ClientResponseError"}

Raise(e) == [kind |-> "raise", exc |-> e]
Return(v) == [kind |-> "return", value |-> v]

\* a Python bool and a Python list as return values
PyBool(b) == [bool |-> b]
PyList(l) == [list |-> l]

\* -------------------------------------------------------- token manager
\* the lifetimes (expires_in, seconds) the server may report
ExpiresInValues == {300, 301}

\* the access token of the n-th grant of the server
AccessToken(n) == "T" \o ToString(n)

\* what the transport may answer to the token exchange when n tokens were granted
TokenReplies(n) ==
    {[exc |-> e, body |-> None] : e \in TransportExcs \cup {"Exception"}}
    \cup {[exc |-> NoneStr, body |-> [access_token |-> AccessToken(n + 1), expires_in |-> e]] :
            e \in ExpiresInValues}
    \cup {[exc |-> NoneStr, body |-> b] :
            b \in {[token_type |-> "bearer"],
                   [access_token |-> "", expires_in |-> 301],
                   [access_token |-> AccessToken(n + 1)]}}

\* the reply carries a newly granted access token
Grants(r) == r.exc = NoneStr /\ TruthyStr(Get(r.body, "access_token"))

\* the reply is a complete grant: an access token and its lifetime
GoodGrant(r) == Grants(r) /\ "expires_in" \in DOMAIN r.body

\* MissingCreds that looks at client_id alone
MissingCreds_IdOnly(id, sec) == ~TruthyStr(id)

\* if not self.client_id or not self.secret
MissingCreds(id, sec) == ~TruthyStr(id) \/ ~TruthyStr(sec)

\* TokenIsValid with the window off by its unit: 5 seconds for 5 minutes
TokenIsValid_WindowInSeconds(tok, n) ==
    /\ TruthyDict(tok)
    /\ Fromisoformat(tok.expires) > n + Seconds(WindowMinutes)

\* TokenIsValid with >= for >: a token expiring at now + 5 minutes is reused
TokenIsValid_AtBoundary(tok, n) ==
    /\ TruthyDict(tok)
    /\ Fromisoformat(tok.expires) >= n + Minutes(WindowMinutes)

\* TokenIsValid that never reuses a token
TokenIsValid_Never(tok, n) == FALSE

\* if self.token: expires = ...; if expires > datetime.now() + timedelta(minutes=5)
TokenIsValid(tok, n) ==
    /\ TruthyDict(tok)
    /\ Fromisoformat(tok.expires) > n + Minutes(WindowMinutes)

\* url and data of the exchange
TokenRequest(base, id, sec) ==
    [method |-> "POST",
     url |-> base \o "/token/",
     data |-> [grant_type |-> "client_credentials", client_id |-> id, client_secret |-> sec]]

\* WithExpires that takes expires_in for minutes
WithExpires_InMinutes(body, n) ==
    SetItem(body, "expires", Isoformat(n + Minutes(body.expires_in)))

\* token["expires"] = (datetime.now() + timedelta(seconds=token["expires_in"])).isoformat()
WithExpires(body, n) == SetItem(body, "expires", Isoformat(n + Seconds(body.expires_in)))

\* StoreToken that puts the new access_token into the dict already cached
StoreToken_Merge(old, new) ==
    IF old = None THEN new ELSE [old EXCEPT !.access_token = new.access_token]

\* self.token = token
StoreToken(old, new) == new

\* TokenFailure without the check of access_token
TokenFailure_NoAccessTokenCheck(r) ==
    IF r.exc # NoneStr THEN r.exc
    ELSE IF "expires_in" \notin DOMAIN r.body THEN "KeyError"
    ELSE NoneStr

\* TokenFailure that raises every aiohttp failure as a plain ClientError
TokenFailure_AsClientError(r) ==
    IF r.exc # NoneStr THEN (IF IsClientError(r.exc) THEN "ClientError" ELSE r.exc)
    ELSE IF ~TruthyStr(Get(r.body, "access_token")) THEN "PermissionError"
    ELSE IF "expires_in" \notin DOMAIN r.body THEN "KeyError"
    ELSE NoneStr

\* what _async_get_token does with a reply: the exception it raises, or NoneStr
TokenFailure(r) ==
    IF r.exc # NoneStr THEN r.exc
    ELSE IF ~TruthyStr(Get(r.body, "access_token")) THEN "PermissionError"
    ELSE IF "expires_in" \notin DOMAIN r.body THEN "KeyError"
    ELSE NoneStr

\* OnTokenFailure that swallows the failure as the operations do for their own request
OnTokenFailure_ReturnNone(op, e) == Return(None)

\* try: await self._async_get_token() / except Exception: raise
OnTokenFailure(op, e) == Raise(e)

\* ------------------------------------------------------ request building
\* x or None, for a dict-or-None x
OrNone(d) == IF TruthyDict(d) THEN d ELSE None

\* x or {}, for a dict-or-None x
OrEmpty(d) == IF TruthyDict(d) THEN d ELSE EmptyDict

\* str(b) of a bool
Str(b) == IF b THEN "True" ELSE "False"

\* Headers that also identify the client by its secret
Headers_WithSecret(tok) ==
    [Authorization |-> "Bearer " \o Get(tok, "access_token"), X_Client_Secret |-> secret]

\* Headers without the Bearer scheme
Headers_NoScheme(tok) == [Authorization |-> Get(tok, "access_token")]

\* headers = {"Authorization": f"Bearer {self.token.get('access_token')}"}
Headers(tok) == [Authorization |-> "Bearer " \o Get(tok, "access_token")]

\* DetailQuery where a lang key of params is kept over the lang argument
DetailQuery_ParamsWin(lang, params) ==
    LET q == IF TruthyDict(params) THEN params ELSE EmptyDict
    IN  IF lang # NoneStr /\ "lang" \notin DOMAIN q THEN SetItem(q, "lang", lang) ELSE q

\* detail: query_params = dict(params) if params else {}; if lang is not None: ...["lang"] = lang
DetailQuery(lang, params) ==
    LET q == IF TruthyDict(params) THEN params ELSE EmptyDict
    IN  IF lang # NoneStr THEN SetItem(q, "lang", lang) ELSE q

\* DetailParams without "or None"
DetailParams_NoOrNone(lang, params) == DetailQuery(lang, params)

\* detail: the value handed to session.get(..., params=)
DetailParams(lang, params) == OrNone(DetailQuery(lang, params))

\* UploadQuery that sends dry_run alone, dropping the other keys of params
UploadQuery_OnlyDryRun(dry_run, params) ==
    IF TruthyDict(params) /\ "dry_run" \in DOMAIN params
    THEN [dry_run |-> params["dry_run"]]
    ELSE [dry_run |-> Str(dry_run)]

\* UploadQuery where the dry_run argument is kept over a dry_run key of params
UploadQuery_ArgumentWins(dry_run, params) ==
    LET q == IF TruthyDict(params) THEN params ELSE EmptyDict
    IN  SetItem(q, "dry_run", Str(dry_run))

\* upload: query_params = {"dry_run": str(dry_run)}; if params: query_params.update(params)
UploadQuery(dry_run, params) ==
    LET q == [dry_run |-> Str(dry_run)]
    IN  IF TruthyDict(params) THEN Update(q, params) ELSE q

\* register: the location fields that are not None, then extra_json merged in
LocationFields(c) ==
    LET all == [location_country |-> c.location_country,
                location_by_IP |-> c.location_by_ip,
                location_lon |-> c.location_lon,
                location_lat |-> c.location_lat]
    IN  [k \in {x \in DOMAIN all : all[x] # NoneStr} |-> all[k]]

BasePayload(c) ==
    IF TruthyDict(c.extra_json) THEN Update(LocationFields(c), c.extra_json)
    ELSE LocationFields(c)

\* EntryPayload that walks the map from its last entry to its first
EntryPayload_Reversed(c, i) ==
    LET j == Len(c.sensor_pid_map) + 1 - i
    IN  SetItem(SetItem(BasePayload(c), "custom_id", c.sensor_pid_map[j][1]),
                "pid", c.sensor_pid_map[j][2])

\* EntryPayload that merges extra_json after the entry's custom_id and pid
EntryPayload_ExtraWins(c, i) ==
    LET entry == SetItem(SetItem(LocationFields(c), "custom_id", c.sensor_pid_map[i][1]),
                         "pid", c.sensor_pid_map[i][2])
    IN  IF TruthyDict(c.extra_json) THEN Update(entry, c.extra_json) ELSE entry

\* register: api_payload['custom_id'] = ...; api_payload['pid'] = ... for entry i
EntryPayload(c, i) ==
    SetItem(SetItem(BasePayload(c), "custom_id", c.sensor_pid_map[i][1]),
            "pid", c.sensor_pid_map[i][2])

\* the request an operation hands to its session; i is register's entry
OpRequest(base, c, h, i) ==
    CASE c.op = "detail" ->
            [method |-> "GET", url |-> base \o "/plant/detail/" \o c.pid, headers |-> h,
             params |-> DetailParams(c.lang, c.params), json |-> None,
             kwargs |-> OrEmpty(c.request_kwargs)]
      [] c.op = "search" ->
            [method |-> "GET", url |-> base \o "/plant/search?alias=" \o c.search_text,
             headers |-> h, params |-> OrNone(c.params), json |-> None,
             kwargs |-> OrEmpty(c.request_kwargs)]
      [] c.op = "register" ->
            [method |-> "POST", url |-> base \o "/sensor-data/instance", headers |-> h,
             params |-> OrNone(c.params), json |-> EntryPayload(c, i),
             kwargs |-> OrEmpty(c.request_kwargs)]
      [] c.op = "upload" ->
            [method |-> "POST", url |-> base \o "/sensor-data/upload", headers |-> h,
             params |-> UploadQuery(c.dry_run, c.params), json |-> [doc |-> c.jts_doc],
             kwargs |-> OrEmpty(c.request_kwargs)]

\* ------------------------------------------------------ outcome mapping
\* what the transport may answer to an operation's request
ErrorLists == {"pid: required", "custom_id: too long"}

ValidationBody(e) == [type |-> "validation_error", errors |-> e]

OpBodies(op) ==
    IF op = "register"
    THEN {[id |-> "1"], [type |-> "other"], [detail |-> "bad"]}
         \cup {ValidationBody(e) : e \in ErrorLists}
    ELSE {[ok |-> "1"]}

OpReplies(op) ==
    {[exc |-> e, status |-> 0, body |-> None] : e \in TransportExcs \cup {"Exception"}}
    \cup {[exc |-> NoneStr, status |-> s, body |-> b] : s \in {200, 400, 500}, b \in OpBodies(op)}

\* ClientSession(raise_for_status=True): a status of 400 or more raises
SessionExc(r) ==
    IF r.exc # NoneStr THEN r.exc
    ELSE IF r.status >= 400 THEN "ClientResponseError"
    ELSE NoneStr

\* DetailOutcome without the except Exception clause
DetailOutcome_NoBroadExcept(r) ==
    LET e == SessionExc(r)
    IN  IF e = NoneStr THEN Return(r.body)
        ELSE IF IsClientError(e) THEN Return(None)
        ELSE Raise(e)

\* detail: every failure of the GET path becomes None
DetailOutcome(r) ==
    IF SessionExc(r) = NoneStr THEN Return(r.body) ELSE Return(None)

\* SearchOutcome that re-raises the failures of its request as the token step does
SearchOutcome_Raises(r) ==
    LET e == SessionExc(r)
    IN  IF e = NoneStr THEN Return(r.body) ELSE Raise(e)

\* search: the aiohttp failures become None, others are raised
SearchOutcome(r) ==
    LET e == SessionExc(r)
    IN  IF e = NoneStr THEN Return(r.body)
        ELSE IF IsClientError(e) THEN Return(None)
        ELSE Raise(e)

\* upload: return result.ok; the aiohttp failures become None, others are raised
UploadOutcome(r) ==
    LET e == SessionExc(r)
    IN  IF e = NoneStr THEN Return(PyBool(r.status < 400))
        ELSE IF IsClientError(e) THEN Return(None)
        ELSE Raise(e)

\* register: the exception one POST ends with (raise_for_status=False on the request), or NoneStr
PostExc(r) ==
    IF r.exc # NoneStr THEN r.exc
    ELSE IF r.status = 400 /\ "type" \notin DOMAIN r.body THEN "KeyError"
    ELSE IF r.status = 400 /\ r.body.type = "validation_error" THEN "ValidationError"
    ELSE IF r.status >= 400 THEN "ClientResponseError"
    ELSE NoneStr

\* RegisterFailure without the except clause for ServerTimeoutError
RegisterFailure_TimeoutRaised(r) ==
    LET e == PostExc(r)
    IN  IF e = "ValidationError" THEN [kind |-> "raise", exc |-> e, errors |-> r.body.errors]
        ELSE IF e = "TooManyRedirects" THEN Return(None)
        ELSE Raise(e)

\* RegisterFailure with the except clause for aiohttp.ClientError that the source
\* has commented out
RegisterFailure_ClientErrorSwallowed(r) ==
    LET e == PostExc(r)
    IN  IF e = "ValidationError" THEN [kind |-> "raise", exc |-> e, errors |-> r.body.errors]
        ELSE IF IsClientError(e) THEN Return(None)
        ELSE Raise(e)

\* RegisterFailure whose ValidationError carries the body's type instead of its errors
RegisterFailure_ErrorsIsType(r) ==
    LET e == PostExc(r)
    IN  IF e = "ValidationError" THEN [kind |-> "raise", exc |-> e, errors |-> r.body.type]
        ELSE IF e \in {"ServerTimeoutError", "TooManyRedirects"} THEN Return(None)
        ELSE Raise(e)

\* register: the except clauses
RegisterFailure(r) ==
    LET e == PostExc(r)
    IN  IF e = "ValidationError" THEN [kind |-> "raise", exc |-> e, errors |-> r.body.errors]
        ELSE IF e \in {"ServerTimeoutError", "TooManyRedirects"} THEN Return(None)
        ELSE Raise(e)

\* ------------------------------------------------------------ the calls
\* the coroutines a task may start, with their arguments
TokenCalls == {[op |-> "token"]}

DetailCalls ==
    {[op |-> "detail", pid |-> "rosa", lang |-> l, params |-> None, request_kwargs |-> None] :
        l \in {NoneStr, "de"}}

SearchCalls ==
    {[op |-> "search", search_text |-> "rose", params |-> None, request_kwargs |-> None]}

RegisterCalls ==
    {[op |-> "register", sensor_pid_map |-> m, location_by_ip |-> NoneStr,
      location_country |-> "AU", location_lon |-> NoneStr, location_lat |-> NoneStr,
      extra_json |-> None, params |-> None, request_kwargs |-> None] :
        m \in {<<>>, <<<<"A", "pid1">>, <<"B", "pid2">>>>}}

UploadCalls ==
    {[op |-> "upload", jts_doc |-> "doc", dry_run |-> FALSE, params |-> None,
      request_kwargs |-> None]}

Calls == TokenCalls \cup DetailCalls \cup SearchCalls \cup RegisterCalls \cup UploadCalls

NoCall == [op |-> "none"]

\* ---------------------------------------------------------------- state
Init ==
    /\ client_id \in {NoneStr, "", "id"}
    /\ secret \in {NoneStr, "", "secret"}
    /\ base_url = "https://open.plantbook.io/api/v1"
    /\ token = None
    /\ now = 0
    /\ ticks = 0
    /\ calls = 0
    /\ issued = 0
    /\ pc = [t \in Tasks |-> "idle"]
    /\ call = [t \in Tasks |-> NoCall]
    /\ hdr = [t \in Tasks |-> None]
    /\ req = [t \in Tasks |-> None]
    /\ idx = [t \in Tasks |-> 0]
    /\ results = [t \in Tasks |-> <<>>]
    /\ exch = [t \in Tasks |-> 0]
    /\ sessions = [t \in Tasks |-> 0]
    /\ nreq = [t \in Tasks |-> 0]
    /\ last = None
    /\ granted = None

\* what the caller of the coroutine sees when token acquisition fails with e
Failed(c, e) == IF c.op = "token" THEN Raise(e) ELSE OnTokenFailure(c.op, e)

\* the coroutine of task t ends with outcome o, having posted ne exchanges, created ns
\* sessions and dispatched nr operation requests: its locals are gone
FinishCall(t, c, o, ne, ns, nr) ==
    /\ last' = [call |-> c, outcome |-> o, exch |-> ne, sessions |-> ns, nreq |-> nr]
    /\ pc' = [pc EXCEPT ![t] = "done"]
    /\ call' = [call EXCEPT ![t] = NoCall]
    /\ hdr' = [hdr EXCEPT ![t] = None]
    /\ req' = [req EXCEPT ![t] = None]
    /\ idx' = [idx EXCEPT ![t] = 0]
    /\ results' = [results EXCEPT ![t] = <<>>]
    /\ exch' = [exch EXCEPT ![t] = 0]
    /\ sessions' = [sessions EXCEPT ![t] = 0]
    /\ nreq' = [nreq EXCEPT ![t] = 0]

\* ArgsAfter of a detail that writes lang into the caller's params instead of a copy
ArgsAfter_InPlace(c) ==
    IF c.op = "detail" /\ TruthyDict(c.params) /\ c.lang # NoneStr
    THEN [c EXCEPT !.params = SetItem(@, "lang", c.lang)]
    ELSE c

\* the caller's arguments once the operation has built its request: detail merges
\* lang into dict(params), upload merges params into a new query_params, register
\* merges extra_json, custom_id and pid into a new api_payload, and search passes
\* params on; params, request_kwargs, extra_json and sensor_pid_map are only read
ArgsAfter(c) == c

\* Proceed of a register that returns None for a map without entries
Proceed_EmptyMapIsNone(t, c) ==
    IF c.op = "register" /\ Len(c.sensor_pid_map) = 0
    THEN FinishCall(t, ArgsAfter(c), Return(None), exch[t], sessions[t] + 1, nreq[t])
    ELSE /\ pc' = [pc EXCEPT ![t] = "op_wait"]
         /\ call' = [call EXCEPT ![t] = ArgsAfter(c)]
         /\ hdr' = [hdr EXCEPT ![t] = Headers(token)]
         /\ req' = [req EXCEPT ![t] = OpRequest(base_url, c, Headers(token), 1)]
         /\ sessions' = [sessions EXCEPT ![t] = @ + 1]
         /\ nreq' = [nreq EXCEPT ![t] = @ + 1]
         /\ idx' = [idx EXCEPT ![t] = 1]
         /\ last' = None
         /\ UNCHANGED <<results, exch>>

\* operation c of task t after its token step, up to its first request
Proceed(t, c) ==
    IF c.op = "register" /\ Len(c.sensor_pid_map) = 0
    THEN FinishCall(t, ArgsAfter(c), Return(PyList(<<>>)), exch[t], sessions[t] + 1, nreq[t])
    ELSE /\ pc' = [pc EXCEPT ![t] = "op_wait"]
         /\ call' = [call EXCEPT ![t] = ArgsAfter(c)]
         /\ hdr' = [hdr EXCEPT ![t] = Headers(token)]
         /\ req' = [req EXCEPT ![t] = OpRequest(base_url, c, Headers(token), 1)]
         /\ sessions' = [sessions EXCEPT ![t] = @ + 1]
         /\ nreq' = [nreq EXCEPT ![t] = @ + 1]
         /\ idx' = [idx EXCEPT ![t] = 1]
         /\ last' = None
         /\ UNCHANGED <<results, exch>>

\* End that sends the request once more before giving up on a failure
End_WithRetry(t, o) ==
    FinishCall(t, call[t], o, exch[t], sessions[t],
               IF o.kind = "raise" \/ o = Return(None) THEN nreq[t] + 1 ELSE nreq[t])

\* End of a register that hands back the responses collected so far where the
\* source returns None
End_ReturnsCollected(t, o) ==
    FinishCall(t, call[t],
               IF o = Return(None) /\ results[t] # <<>> THEN Return(PyList(results[t])) ELSE o,
               exch[t], sessions[t], nreq[t])

\* End that first issues one compensating request for every response collected
End_WithRollback(t, o) ==
    FinishCall(t, call[t], o, exch[t], sessions[t], nreq[t] + Len(results[t]))

\* the suspended coroutine of task t ends with outcome o
End(t, o) == FinishCall(t, call[t], o, exch[t], sessions[t], nreq[t])

\* InFlightOk of a client that serialises its callers: a task starts when every
\* task before it has ended
InFlightOk_OneAtATime(t) == \A u \in Tasks : u < t => pc[u] = "done"

\* the interleavings modelled are those of two coroutines: a task starts when all
\* tasks but the one before it have ended
InFlightOk(t) == \A u \in Tasks : u + 1 < t => pc[u] = "done"

\* the next task starts coroutine c and runs it to its first await or to its end:
\* _async_get_token from its entry and, for an operation whose token is still valid,
\* the operation up to its first request
Invoke(t, c) ==
    /\ t = calls + 1
    /\ pc[t] = "idle"
    /\ InFlightOk(t)
    /\ calls' = calls + 1
    /\ IF MissingCreds(client_id, secret)
       THEN FinishCall(t, c, Failed(c, "MissingClientIdOrSecret"), 0, 0, 0)
       ELSE IF TokenIsValid(token, now)
       THEN IF c.op = "token"
            THEN FinishCall(t, c, Return(PyBool(TRUE)), 0, 0, 0)
            ELSE Proceed(t, c)
       ELSE /\ pc' = [pc EXCEPT ![t] = "token_wait"]
            /\ call' = [call EXCEPT ![t] = c]
            /\ exch' = [exch EXCEPT ![t] = @ + 1]
            /\ sessions' = [sessions EXCEPT ![t] = @ + 1]
            /\ req' = [req EXCEPT ![t] = TokenRequest(base_url, client_id, secret)]
            /\ last' = None
            /\ UNCHANGED <<nreq, hdr, idx, results>>
    /\ UNCHANGED <<clientVars, token, now, ticks, issued, granted>>

\* TokenReply that assigns self.token before it computes expires: a body without
\* expires_in is cached as it came although the call raises
TokenReply_StoresBeforeExpires(t, r) ==
    /\ pc[t] = "token_wait"
    /\ issued' = IF GoodGrant(r) THEN issued + 1 ELSE issued
    /\ granted' = IF GoodGrant(r) THEN [body |-> r.body, at |-> now] ELSE granted
    /\ IF TokenFailure(r) # NoneStr
       THEN /\ End(t, Failed(call[t], TokenFailure(r)))
            /\ token' = IF TokenFailure(r) = "KeyError" THEN r.body ELSE token
       ELSE /\ token' = StoreToken(token, WithExpires(r.body, now))
            /\ IF call[t].op = "token"
               THEN End(t, Return(PyBool(TRUE)))
               ELSE /\ pc' = [pc EXCEPT ![t] = "token_ok"]
                    /\ req' = [req EXCEPT ![t] = None]
                    /\ last' = None
                    /\ UNCHANGED <<call, hdr, idx, results, exch, sessions, nreq>>
    /\ UNCHANGED <<clientVars, now, ticks, calls>>

\* TokenReply that resets the cached credential when the exchange fails
TokenReply_ClearsOnFailure(t, r) ==
    /\ pc[t] = "token_wait"
    /\ issued' = IF GoodGrant(r) THEN issued + 1 ELSE issued
    /\ granted' = IF GoodGrant(r) THEN [body |-> r.body, at |-> now] ELSE granted
    /\ IF TokenFailure(r) # NoneStr
       THEN /\ End(t, Failed(call[t], TokenFailure(r)))
            /\ token' = None
       ELSE /\ token' = StoreToken(token, WithExpires(r.body, now))
            /\ IF call[t].op = "token"
               THEN End(t, Return(PyBool(TRUE)))
               ELSE /\ pc' = [pc EXCEPT ![t] = "token_ok"]
                    /\ req' = [req EXCEPT ![t] = None]
                    /\ last' = None
                    /\ UNCHANGED <<call, hdr, idx, results, exch, sessions, nreq>>
    /\ UNCHANGED <<clientVars, now, ticks, calls>>

\* TokenReply of a client that drops a secret the server has refused
TokenReply_ForgetsSecret(t, r) ==
    /\ pc[t] = "token_wait"
    /\ issued' = IF GoodGrant(r) THEN issued + 1 ELSE issued
    /\ granted' = IF GoodGrant(r) THEN [body |-> r.body, at |-> now] ELSE granted
    /\ IF TokenFailure(r) # NoneStr
       THEN /\ End(t, Failed(call[t], TokenFailure(r)))
            /\ token' = token
            /\ secret' = IF TokenFailure(r) = "PermissionError" THEN NoneStr ELSE secret
       ELSE /\ token' = StoreToken(token, WithExpires(r.body, now))
            /\ secret' = secret
            /\ IF call[t].op = "token"
               THEN End(t, Return(PyBool(TRUE)))
               ELSE /\ pc' = [pc EXCEPT ![t] = "token_ok"]
                    /\ req' = [req EXCEPT ![t] = None]
                    /\ last' = None
                    /\ UNCHANGED <<call, hdr, idx, results, exch, sessions, nreq>>
    /\ UNCHANGED <<client_id, base_url, now, ticks, calls>>

\* the token exchange of task t ends with reply r
TokenReply(t, r) ==
    /\ pc[t] = "token_wait"
    /\ issued' = IF GoodGrant(r) THEN issued + 1 ELSE issued
    /\ granted' = IF GoodGrant(r) THEN [body |-> r.body, at |-> now] ELSE granted
    /\ IF TokenFailure(r) # NoneStr
       THEN /\ End(t, Failed(call[t], TokenFailure(r)))
            /\ token' = token
       ELSE /\ token' = StoreToken(token, WithExpires(r.body, now))
            /\ IF call[t].op = "token"
               THEN End(t, Return(PyBool(TRUE)))
               ELSE /\ pc' = [pc EXCEPT ![t] = "token_ok"]
                    /\ req' = [req EXCEPT ![t] = None]
                    /\ last' = None
                    /\ UNCHANGED <<call, hdr, idx, results, exch, sessions, nreq>>
    /\ UNCHANGED <<clientVars, now, ticks, calls>>

\* the operation of task t goes on after its token step
Resume(t) ==
    /\ pc[t] = "token_ok"
    /\ Proceed(t, call[t])
    /\ UNCHANGED <<clientVars, token, now, ticks, calls, issued, granted>>

\* OpReply of a client that drops its credential when the server answers an
\* operation's request with a status of 400 or more
OpReply_DropsRejectedToken(t, r) ==
    /\ pc[t] = "op_wait"
    /\ r \in OpReplies(call[t].op)
    /\ CASE call[t].op = "detail" -> End(t, DetailOutcome(r))
         [] call[t].op = "search" -> End(t, SearchOutcome(r))
         [] call[t].op = "upload" -> End(t, UploadOutcome(r))
         [] call[t].op = "register" ->
               IF PostExc(r) # NoneStr
               THEN End(t, RegisterFailure(r))
               ELSE IF idx[t] < Len(call[t].sensor_pid_map)
               THEN /\ results' = [results EXCEPT ![t] = Append(@, r.body)]
                    /\ idx' = [idx EXCEPT ![t] = @ + 1]
                    /\ req' = [req EXCEPT ![t] =
                                 OpRequest(base_url, call[t], hdr[t], idx[t] + 1)]
                    /\ nreq' = [nreq EXCEPT ![t] = @ + 1]
                    /\ last' = None
                    /\ UNCHANGED <<pc, call, hdr, exch, sessions>>
               ELSE End(t, Return(PyList(Append(results[t], r.body))))
    /\ token' = IF r.exc = NoneStr /\ r.status >= 400 THEN None ELSE token
    /\ UNCHANGED <<clientVars, now, ticks, calls, issued, granted>>

\* the request of task t ends with reply r
OpReply(t, r) ==
    /\ pc[t] = "op_wait"
    /\ r \in OpReplies(call[t].op)
    /\ CASE call[t].op = "detail" -> End(t, DetailOutcome(r))
         [] call[t].op = "search" -> End(t, SearchOutcome(r))
         [] call[t].op = "upload" -> End(t, UploadOutcome(r))
         [] call[t].op = "register" ->
               IF PostExc(r) # NoneStr
               THEN End(t, RegisterFailure(r))
               ELSE IF idx[t] < Len(call[t].sensor_pid_map)
               THEN /\ results' = [results EXCEPT ![t] = Append(@, r.body)]
                    /\ idx' = [idx EXCEPT ![t] = @ + 1]
                    /\ req' = [req EXCEPT ![t] =
                                 OpRequest(base_url, call[t], hdr[t], idx[t] + 1)]
                    /\ nreq' = [nreq EXCEPT ![t] = @ + 1]
                    /\ last' = None
                    /\ UNCHANGED <<pc, call, hdr, exch, sessions>>
               ELSE End(t, Return(PyList(Append(results[t], r.body))))
    /\ UNCHANGED <<clientVars, token, now, ticks, calls, issued, granted>>

\* the clock advances by d seconds
Tick(d) ==
    /\ ticks < MaxTicks
    /\ ticks' = ticks + 1
    /\ now' = now + d
    /\ last' = None
    /\ UNCHANGED <<clientVars, token, calls, issued, pc, call, hdr, req, idx, results,
                   exch, sessions, nreq, granted>>

Next ==
    \/ \E t \in Tasks, c \in Calls : Invoke(t, c)
    \/ \E t \in Tasks : \E r \in TokenReplies(issued) : TokenReply(t, r)
    \/ \E t \in Tasks : Resume(t)
    \/ \E t \in Tasks : \E r \in OpReplies(call[t].op) : OpReply(t, r)
    \/ \E d \in TickAmounts : Tick(d)

Spec == Init /\ [][Next]_vars

\* --------------------------------------------- a client with a token set
\* tests/offline/test_token_handling.py assigns the token attribute of a new client
\* before its first call: the client starts with no token, with one that is stale
\* (at the boundary) or with one that is still valid
PresetTokens ==
    {[access_token |-> "CACHED", expires |-> Isoformat(x)] :
        x \in {Minutes(WindowMinutes), Minutes(2 * WindowMinutes)}}

InitPreset ==
    /\ client_id \in {NoneStr, "", "id"}
    /\ secret \in {NoneStr, "", "secret"}
    /\ base_url = "https://open.plantbook.io/api/v1"
    /\ token \in {None} \cup PresetTokens
    /\ now = 0
    /\ ticks = 0
    /\ calls = 0
    /\ issued = 0
    /\ pc = [t \in Tasks |-> "idle"]
    /\ call = [t \in Tasks |-> NoCall]
    /\ hdr = [t \in Tasks |-> None]
    /\ req = [t \in Tasks |-> None]
    /\ idx = [t \in Tasks |-> 0]
    /\ results = [t \in Tasks |-> <<>>]
    /\ exch = [t \in Tasks |-> 0]
    /\ sessions = [t \in Tasks |-> 0]
    /\ nreq = [t \in Tasks |-> 0]
    /\ last = None
    /\ granted = None

SpecPreset == InitPreset /\ [][Next]_vars

\* ----------------------------------------------------------- properties
\* the client's state as the properties read it
HasCreds == client_id \notin {NoneStr, ""} /\ secret \notin {NoneStr, ""}
ExpiresAt == Fromisoformat(token.expires)
FreshCredential == token # None /\ ExpiresAt > now + 5 * 60
StaleOrAbsent == token = None \/ ExpiresAt <= now + 5 * 60
True == Return(PyBool(TRUE))

\* C1: with client_id and secret non-empty and a cached credential that expires
\* later than now + 5 minutes, _async_get_token returns True without creating a
\* session or posting an exchange, and the credential stays as it is; an operation
\* in that state posts no exchange either.
C1_FreshTokenReused ==
    [][\A t \in Tasks, c \in Calls :
          (Invoke(t, c) /\ HasCreds /\ FreshCredential)
          => /\ token' = token
             /\ exch'[t] = 0
             /\ pc'[t] # "token_wait"
             /\ c.op = "token" => /\ last' # None
                                  /\ last'.outcome = True
                                  /\ last'.exch = 0
                                  /\ last'.sessions = 0]_vars

C1_Witness ==
    /\ last # None
    /\ last.call.op = "token"
    /\ last.outcome = True
    /\ last.sessions = 0
    /\ HasCreds
    /\ FreshCredential

\* C2: with client_id and secret non-empty and the credential absent or expiring at
\* or before now + 5 minutes, an invocation posts exactly one token exchange: one
\* when it starts, and none after it until it ends, however the exchange ends.
C2_OneExchangeWhenStale ==
    [][\A t \in Tasks :
          /\ \A c \in Calls :
                (Invoke(t, c) /\ HasCreds /\ StaleOrAbsent)
                => /\ exch'[t] = 1
                   /\ pc'[t] = "token_wait"
                   /\ req'[t] = [method |-> "POST", url |-> base_url \o "/token/",
                                 data |-> [grant_type |-> "client_credentials",
                                           client_id |-> client_id,
                                           client_secret |-> secret]]
          /\ pc[t] \in {"token_wait", "token_ok", "op_wait"}
                => IF pc'[t] = "done"
                   THEN last' # None /\ last'.exch = exch[t]
                   ELSE exch'[t] = exch[t]]_vars

C2_Witness ==
    /\ calls = 1
    /\ ticks = 0
    /\ pc[1] = "token_wait"
    /\ exch[1] = 1
    /\ token # None
    /\ ExpiresAt = now + 5 * 60

\* C3: when client_id or secret is empty or None, _async_get_token raises
\* MissingClientIdOrSecret without creating a session or posting an exchange,
\* whatever is cached, and the cached credential stays as it is.
C3_MissingCredentialsRaise ==
    [][\A t \in Tasks :
          (Invoke(t, [op |-> "token"]) /\ ~HasCreds)
          => /\ last' # None
             /\ last'.outcome = [kind |-> "raise", exc |-> "MissingClientIdOrSecret"]
             /\ last'.exch = 0
             /\ last'.sessions = 0
             /\ req'[t] = None
             /\ token' = token]_vars

C3_Witness ==
    /\ last # None
    /\ last.call.op = "token"
    /\ last.outcome = [kind |-> "raise", exc |-> "MissingClientIdOrSecret"]
    /\ client_id = "id"
    /\ secret = ""
    /\ FreshCredential

\* the reply of the exchange is a body without access_token, or with an empty one
NoAccessToken(r) ==
    /\ r.exc = NoneStr
    /\ ("access_token" \notin DOMAIN r.body \/ r.body.access_token = "")

\* C4: when the exchange answers with a body whose access_token is missing or empty,
\* _async_get_token raises PermissionError and the cached credential, if any, is
\* what it was: nothing of that body is stored.
C4_NoAccessTokenIsPermissionError ==
    [][\A t \in Tasks : \A r \in TokenReplies(issued) :
          (TokenReply(t, r) /\ call[t].op = "token" /\ NoAccessToken(r))
          => /\ last' # None
             /\ last'.outcome = [kind |-> "raise", exc |-> "PermissionError"]
             /\ token' = token]_vars

C4_Witness ==
    /\ last # None
    /\ last.call.op = "token"
    /\ last.outcome = [kind |-> "raise", exc |-> "PermissionError"]
    /\ last.exch = 1
    /\ token # None

\* C5: when the transport fails during the exchange with a timeout, too many
\* redirects or a generic client error, _async_get_token raises that same failure,
\* and the cached credential, if any, is what it was.
C5_TransportFailureRaised ==
    [][\A t \in Tasks : \A r \in TokenReplies(issued) :
          (/\ TokenReply(t, r)
           /\ call[t].op = "token"
           /\ r.exc \in {"ServerTimeoutError", "TooManyRedirects", "ClientError"})
          => /\ last' # None
             /\ last'.outcome = [kind |-> "raise", exc |-> r.exc]
             /\ token' = token]_vars

C5_Witness ==
    /\ last # None
    /\ last.call.op = "token"
    /\ last.outcome = [kind |-> "raise", exc |-> "ServerTimeoutError"]
    /\ last.exch = 1
    /\ token # None

\* C6: a cached credential expires at the clock value at which its exchange was
\* answered plus the expires_in, in seconds, of that answer.
C6_ExpiresIsExchangeTimePlusLifetime ==
    token # None
    => /\ granted # None
       /\ granted.body.access_token = token.access_token
       /\ ExpiresAt = granted.at + granted.body.expires_in

C6_Witness ==
    /\ token # None
    /\ granted # None
    /\ granted.at = 1
    /\ ExpiresAt = 302

\* C7: the cached credential is absent or is, as a whole, what one complete grant
\* gave: that grant's access_token and expires_in with the expires computed from
\* them, and no other key; also while other coroutines are in flight.
C7_CredentialIsOneWholeGrant ==
    \/ token = None
    \/ /\ granted # None
       /\ token = [access_token |-> granted.body.access_token,
                   expires_in |-> granted.body.expires_in,
                   expires |-> Isoformat(granted.at + granted.body.expires_in)]

C7_Witness ==
    /\ token # None
    /\ token.access_token = "T2"
    /\ token.expires_in = 300
    /\ \E t \in Tasks : pc[t] = "op_wait" /\ hdr[t] = [Authorization |-> "Bearer T1"]

\* the four operations
Ops == {"detail", "search", "register", "upload"}

\* C8: when the token step of an operation fails (credentials missing, no
\* access_token in the answer, or a transport failure of the exchange), the
\* operation raises that failure and has dispatched no request of its own.
C8_TokenFailurePropagates ==
    [][\A t \in Tasks :
          /\ \A c \in Calls :
                (Invoke(t, c) /\ c.op \in Ops /\ ~HasCreds)
                => /\ last' # None
                   /\ last'.outcome = [kind |-> "raise", exc |-> "MissingClientIdOrSecret"]
                   /\ last'.nreq = 0
          /\ \A r \in TokenReplies(issued) :
                (/\ TokenReply(t, r)
                 /\ call[t].op \in Ops
                 /\ (NoAccessToken(r) \/ r.exc \in TransportExcs))
                => /\ last' # None
                   /\ last'.outcome =
                        [kind |-> "raise",
                         exc |-> IF NoAccessToken(r) THEN "PermissionError" ELSE r.exc]
                   /\ last'.nreq = 0
                   /\ nreq[t] = 0]_vars

C8_Witness ==
    /\ last # None
    /\ last.call.op = "register"
    /\ last.outcome = [kind |-> "raise", exc |-> "PermissionError"]
    /\ last.exch = 1
    /\ last.nreq = 0

DetailArgCalls ==
    {[op |-> "detail", pid |-> p, lang |-> l, params |-> q, request_kwargs |-> None] :
        p \in {"rosa", "abelia chinensis"},
        l \in {NoneStr, "de", "en"},
        q \in {None, EmptyDict, [lang |-> "en"], [page |-> "2"],
               [lang |-> "en", page |-> "2"]}}

\* search: a params dict with and without the key the url already carries
SearchArgCalls ==
    {[op |-> "search", search_text |-> "rose", params |-> q, request_kwargs |-> None] :
        q \in {None, EmptyDict, [page |-> "3"], [alias |-> "tulip"]}}

\* upload: both values of dry_run, against params with and without a dry_run key
UploadArgCalls ==
    {[op |-> "upload", jts_doc |-> "doc", dry_run |-> d, params |-> q,
      request_kwargs |-> None] :
        d \in BOOLEAN,
        q \in {None, EmptyDict, [dry_run |-> "true"], [batch_id |-> "123"],
               [dry_run |-> "true", batch_id |-> "123"]}}

\* register: maps of zero to three entries with the location of the tests
RegisterMapCalls ==
    {[op |-> "register", sensor_pid_map |-> m, location_by_ip |-> NoneStr,
      location_country |-> "AU", location_lon |-> NoneStr, location_lat |-> NoneStr,
      extra_json |-> None, params |-> None, request_kwargs |-> None] :
        m \in {<<>>, <<<<"A", "pid1">>>>, <<<<"A", "pid1">>, <<"B", "pid2">>>>,
               <<<<"A", "pid1">>, <<"B", "pid2">>, <<"C", "pid3">>>>}}

\* register: a map of two entries with location fields given or left at None, and
\* extra_json absent, empty, adding a field, adding a field that is None, or
\* replacing a location field
RegisterFieldCalls ==
    {[op |-> "register", sensor_pid_map |-> <<<<"A", "pid1">>, <<"B", "pid2">>>>,
      location_by_ip |-> NoneStr, location_country |-> lc, location_lon |-> NoneStr,
      location_lat |-> NoneStr, extra_json |-> x, params |-> [confirm |-> "1"],
      request_kwargs |-> None] :
        lc \in {NoneStr, "AU"},
        x \in {None, EmptyDict, [location_name |-> "Sydney"], [location_name |-> NoneStr],
               [location_country |-> "NZ"], [custom_id |-> "X", pid |-> "Y"]}}

RegisterArgCalls == RegisterMapCalls \cup RegisterFieldCalls

ArgCalls ==
    TokenCalls \cup DetailArgCalls \cup SearchArgCalls \cup UploadArgCalls
    \cup RegisterArgCalls

\* the next coroutine starts when the one before it has ended
InvokeArgs(t, c) ==
    /\ \A u \in Tasks : u < t => pc[u] = "done"
    /\ Invoke(t, c)

NextArgs ==
    \/ \E t \in Tasks, c \in ArgCalls : InvokeArgs(t, c)
    \/ \E t \in Tasks : \E r \in TokenReplies(issued) : TokenReply(t, r)
    \/ \E t \in Tasks : Resume(t)
    \/ \E t \in Tasks : \E r \in OpReplies(call[t].op) : OpReply(t, r)
    \/ \E d \in TickAmounts : Tick(d)

SpecArgs == Init /\ [][NextArgs]_vars

\* C10: the GET of detail called with a lang and no params dict has exactly the
\* query parameters {lang: <lang>}; called with lang None and no params dict, or an
\* empty one, it has params None, not an empty dict; for every pid.
C10_DetailLangQuery ==
    \A t \in Tasks :
        (pc[t] = "op_wait" /\ call[t].op = "detail")
        => /\ (call[t].lang # NoneStr /\ call[t].params = None)
                => req[t].params = [lang |-> call[t].lang]
           /\ (call[t].lang = NoneStr /\ call[t].params \in {None, EmptyDict})
                => req[t].params = None
           /\ req[t].url = base_url \o "/plant/detail/" \o call[t].pid

C10_Witness ==
    \E t \in Tasks :
        /\ pc[t] = "op_wait"
        /\ call[t].op = "detail"
        /\ call[t].pid = "abelia chinensis"
        /\ call[t].lang = NoneStr
        /\ call[t].params = EmptyDict
        /\ req[t].params = None

C13_UploadDryRunQuery ==
    \A t \in Tasks :
        (pc[t] = "op_wait" /\ call[t].op = "upload")
        => LET given == IF call[t].params = None THEN EmptyDict ELSE call[t].params
           IN  /\ req[t].method = "POST"
               /\ "dry_run" \in DOMAIN req[t].params
               /\ DOMAIN req[t].params = DOMAIN given \cup {"dry_run"}
               /\ \A k \in DOMAIN given : req[t].params[k] = given[k]
               /\ "dry_run" \notin DOMAIN given
                    => req[t].params["dry_run"] = Str(call[t].dry_run)

C13_Witness ==
    \E t \in Tasks :
        /\ pc[t] = "op_wait"
        /\ call[t].op = "upload"
        /\ call[t].dry_run = TRUE
        /\ call[t].params = [batch_id |-> "123"]
        /\ req[t].params = [dry_run |-> "True", batch_id |-> "123"]

\* C14: in a register call over a map of N entries, the POST that is answered with
\* success while i - 1 responses have been collected is the i-th request of the
\* call and carries entry i of the map; its decoded response becomes element i of
\* the list; for i < N the POST of entry i + 1 is issued by that step and not
\* before, and for i = N the call returns the list of N responses after N POSTs.
C14_RegisterPostsInMapOrder ==
    [][\A t \in Tasks : \A r \in OpReplies("register") :
          (/\ OpReply(t, r)
           /\ call[t].op = "register"
           /\ r.exc = NoneStr
           /\ r.status = 200)
          => LET m == call[t].sensor_pid_map
                 i == Len(results[t]) + 1
             IN  /\ nreq[t] = i
                 /\ req[t].method = "POST"
                 /\ req[t].json["custom_id"] = m[i][1]
                 /\ req[t].json["pid"] = m[i][2]
                 /\ IF i < Len(m)
                    THEN /\ pc'[t] = "op_wait"
                         /\ results'[t] = Append(results[t], r.body)
                         /\ nreq'[t] = i + 1
                         /\ req'[t].json["custom_id"] = m[i + 1][1]
                         /\ req'[t].json["pid"] = m[i + 1][2]
                    ELSE /\ i = Len(m)
                         /\ last' # None
                         /\ last'.nreq = Len(m)
                         /\ last'.outcome = Return(PyList(Append(results[t], r.body)))
                         /\ Len(last'.outcome.value.list) = Len(m)]_vars

C14_Witness ==
    /\ last # None
    /\ last.call.op = "register"
    /\ Len(last.call.sensor_pid_map) = 3
    /\ last.nreq = 3
    /\ last.outcome = Return(PyList(<<[id |-> "1"], [type |-> "other"], [detail |-> "bad"]>>))

\* C15: when the POST of entry k of a register call is answered with status 400
\* and a body of type validation_error, the call ends by raising ValidationError
\* whose errors is the errors value of that body, and the k requests issued so far
\* are all the requests of the call: no POST follows for the entries after k.
C15_ValidationErrorAborts ==
    [][\A t \in Tasks : \A r \in OpReplies("register") :
          (/\ OpReply(t, r)
           /\ call[t].op = "register"
           /\ r.exc = NoneStr
           /\ r.status = 400
           /\ "type" \in DOMAIN r.body
           /\ r.body["type"] = "validation_error")
          => /\ last' # None
             /\ last'.outcome.kind = "raise"
             /\ last'.outcome.exc = "ValidationError"
             /\ last'.outcome.errors = r.body["errors"]
             /\ last'.nreq = nreq[t]
             /\ nreq[t] = Len(results[t]) + 1
             /\ pc'[t] = "done"
             /\ req'[t] = None]_vars

C15_Witness ==
    /\ last # None
    /\ last.call.op = "register"
    /\ Len(last.call.sensor_pid_map) = 3
    /\ last.nreq = 1
    /\ last.outcome.kind = "raise"
    /\ last.outcome.exc = "ValidationError"
    /\ last.outcome.errors = "custom_id: too long"

\* C16: when the POST of entry k > 1 of a register call is answered with a
\* validation error, k - 1 responses have been collected from k - 1 earlier POSTs,
\* one per entry, the failing POST is the last request of the call (no compensating
\* request follows), and the caller gets the ValidationError alone: the outcome has
\* the exception and its errors and none of the collected responses, which are gone
\* with the coroutine.
C16_NoRollbackNoPartialResult ==
    [][\A t \in Tasks : \A r \in OpReplies("register") :
          (/\ OpReply(t, r)
           /\ call[t].op = "register"
           /\ Len(results[t]) >= 1
           /\ r.exc = NoneStr
           /\ r.status = 400
           /\ "type" \in DOMAIN r.body
           /\ r.body["type"] = "validation_error")
          => LET k == Len(results[t]) + 1
             IN  /\ nreq[t] = k
                 /\ idx[t] = k
                 /\ last' # None
                 /\ last'.nreq = k
                 /\ last'.sessions = sessions[t]
                 /\ DOMAIN last'.outcome = {"kind", "exc", "errors"}
                 /\ last'.outcome.kind = "raise"
                 /\ last'.outcome.exc = "ValidationError"
                 /\ results'[t] = <<>>
                 /\ pc'[t] = "done"]_vars

C16_Witness ==
    /\ last # None
    /\ last.call.op = "register"
    /\ Len(last.call.sensor_pid_map) = 3
    /\ last.nreq = 2
    /\ last.outcome.kind = "raise"
    /\ last.outcome.exc = "ValidationError"

\* C17 as stated: no JSON body of a register call has a key whose value is None,
\* whatever the arguments, and a location field left at None is not a key of the body.
C17_NoNullInRegisterBody ==
    \A t \in Tasks :
        (pc[t] = "op_wait" /\ call[t].op = "register")
        => /\ \A k \in DOMAIN req[t].json : req[t].json[k] # NoneStr
           /\ call[t].location_country = NoneStr /\ call[t].extra_json = None
                => "location_country" \notin DOMAIN req[t].json
           /\ call[t].location_by_ip = NoneStr /\ call[t].extra_json = None
                => "location_by_IP" \notin DOMAIN req[t].json
           /\ call[t].location_lon = NoneStr /\ call[t].extra_json = None
                => "location_lon" \notin DOMAIN req[t].json
           /\ call[t].location_lat = NoneStr /\ call[t].extra_json = None
                => "location_lat" \notin DOMAIN req[t].json

\* C18 as stated: a register POST answered with a status of 400 or more that is
\* not the 400 validation_error case (a 400 body of another type or without a type
\* included) ends the call by raising the generic request error of a bad status:
\* not ValidationError, not a None result, no other exception.
C18_OtherStatusRaisesRequestError ==
    [][\A t \in Tasks : \A r \in OpReplies("register") :
          (/\ OpReply(t, r)
           /\ call[t].op = "register"
           /\ r.exc = NoneStr
           /\ r.status >= 400
           /\ ~(/\ r.status = 400
                /\ "type" \in DOMAIN r.body
                /\ r.body["type"] = "validation_error"))
          => /\ last' # None
             /\ last'.outcome = Raise("ClientResponseError")]_vars

C20_ClientErrorSwallowedByAll ==
    [][\A t \in Tasks : \A r \in OpReplies(call[t].op) :
          (OpReply(t, r) /\ r.exc = "ClientError")
          => /\ last' # None
             /\ last'.outcome = Return(None)]_vars

\* C20: a generic client error raised by the transport during a POST of register
\* is raised to the caller as it is; during the request of detail, search or upload
\* it ends the call with a None result.
C20_RegisterRaisesClientError ==
    [][\A t \in Tasks : \A r \in OpReplies(call[t].op) :
          (OpReply(t, r) /\ r.exc = "ClientError")
          => /\ last' # None
             /\ last'.outcome = IF call[t].op = "register"
                                THEN Raise("ClientError")
                                ELSE Return(None)]_vars

C20_Witness ==
    /\ last # None
    /\ last.call.op = "register"
    /\ last.nreq = 1
    /\ last.outcome = Raise("ClientError")

\* C21 as stated: an upload whose request is answered with an HTTP response (no
\* transport failure) returns a bool: True when the status indicates success,
\* False when it does not.
C21_UploadReturnsSuccessFlag ==
    [][\A t \in Tasks : \A r \in OpReplies("upload") :
          (/\ call[t].op = "upload"
           /\ r.exc = NoneStr
           /\ OpReply(t, r))
          => /\ last' # None
             /\ last'.outcome = Return(PyBool(r.status < 400))]_vars

\* C22: when the transport raises a server timeout, too many redirects or a
\* generic client error during the request of search, detail or upload, the call
\* returns None and raises nothing.
C22_TransportFailureReturnsNone ==
    [][\A t \in Tasks : \A r \in OpReplies(call[t].op) :
          (/\ call[t].op \in {"search", "detail", "upload"}
           /\ r.exc \in {"ServerTimeoutError", "TooManyRedirects", "ClientError"}
           /\ OpReply(t, r))
          => /\ last' # None
             /\ last'.call = call[t]
             /\ last'.outcome = Return(None)
             /\ last'.nreq = 1]_vars

C22_Witness ==
    /\ last # None
    /\ last.call.op = "search"
    /\ last.call.params = [page |-> "3"]
    /\ last.nreq = 1
    /\ last.outcome = Return(None)

\* C23: when the GET of detail, or the decoding of its response, fails with an
\* exception that is none of the three transport kinds, detail returns None and
\* raises nothing.
C23_DetailSwallowsAnyFailure ==
    [][\A t \in Tasks : \A r \in OpReplies("detail") :
          (/\ call[t].op = "detail"
           /\ r.exc # NoneStr
           /\ r.exc \notin {"ServerTimeoutError", "TooManyRedirects", "ClientError"}
           /\ OpReply(t, r))
          => /\ last' # None
             /\ last'.call = call[t]
             /\ last'.outcome = Return(None)]_vars

C23_Witness ==
    /\ last # None
    /\ last.call.op = "detail"
    /\ last.call.lang = "de"
    /\ last.call.params = [page |-> "2"]
    /\ last.nreq = 1
    /\ last.outcome = Return(None)

\* C24 as stated: when the GET of search, or the decoding of its response, fails
\* with an exception that is none of the three transport kinds, search returns None
\* and raises nothing.
C24_SearchSwallowsAnyFailure ==
    [][\A t \in Tasks : \A r \in OpReplies("search") :
          (/\ call[t].op = "search"
           /\ r.exc # NoneStr
           /\ r.exc \notin {"ServerTimeoutError", "TooManyRedirects", "ClientError"}
           /\ OpReply(t, r))
          => /\ last' # None
             /\ last'.outcome = Return(None)]_vars

\* C25: a coroutine posts at most one token exchange and, once past its token
\* step, never goes back to it; when its exchange or one of its requests ends with
\* a transport failure the coroutine ends there, with the exchanges and requests it
\* had issued and no other: nothing is sent again.
C25_OneExchangeNoRetry ==
    [][/\ \A t \in Tasks :
            /\ exch'[t] <= 1
            /\ pc[t] \in {"token_ok", "op_wait", "done"} => pc'[t] # "token_wait"
       /\ last' # None => last'.exch <= 1
       /\ \A t \in Tasks :
            (pc[t] = "token_wait" /\ pc'[t] # "token_wait")
            => \A r \in TokenReplies(issued) :
                 (r.exc \in TransportExcs /\ TokenReply(t, r))
                 => /\ pc'[t] = "done"
                    /\ req'[t] = None
                    /\ last' # None
                    /\ last'.exch = 1
                    /\ last'.nreq = 0
                    /\ last'.sessions = sessions[t]
       /\ \A t \in Tasks :
            (pc[t] = "op_wait" /\ req'[t] # req[t])
            => \A r \in OpReplies(call[t].op) :
                 (r.exc \in TransportExcs /\ OpReply(t, r))
                 => /\ pc'[t] = "done"
                    /\ req'[t] = None
                    /\ last' # None
                    /\ last'.exch = exch[t]
                    /\ last'.nreq = nreq[t]
                    /\ last'.sessions = sessions[t]]_vars

C25_Witness ==
    /\ last # None
    /\ last.call.op = "register"
    /\ Len(last.call.sensor_pid_map) = 2
    /\ last.exch = 1
    /\ last.nreq = 1
    /\ last.outcome = Raise("ClientError")

\* C26: nothing excludes a second caller while an exchange is pending: in every
\* state where a coroutine waits for its token exchange, the client has its
\* credentials and its credential is absent or stale, the next coroutine (the one
\* before the waiting one having ended) can start, and it too posts a token
\* exchange while the first still waits for its own.
C26_NoMutualExclusionOnRefresh ==
    \A u \in Tasks :
        (/\ pc[u] = "token_wait"
         /\ HasCreds
         /\ StaleOrAbsent
         /\ calls = u
         /\ calls < MaxCalls
         /\ \A v \in Tasks : v < u => pc[v] = "done")
        => ENABLED (\E c \in Calls :
                        /\ Invoke(calls + 1, c)
                        /\ pc'[calls + 1] = "token_wait"
                        /\ exch'[calls + 1] = 1
                        /\ pc'[u] = "token_wait"
                        /\ exch'[u] = 1)

C26_Witness ==
    /\ calls = 2
    /\ pc[1] = "token_wait"
    /\ pc[2] = "token_wait"
    /\ exch[1] = 1
    /\ exch[2] = 1
    /\ call[1].op = "detail"
    /\ call[2].op = "search"
    /\ token = None

\* the values of a dict, and the names under which the credentials travel
Values(d) == {d[k] : k \in DOMAIN d}
CredentialKeys == {"client_id", "client_secret", "secret"}

\* C27: client_id and secret travel in the body of the token exchange and nowhere
\* else: the pending request of an operation has the operation's url (the base
\* url, the path and the pid or search text), one Authorization header with a
\* granted access token, and neither a key nor a value of its headers, query
\* parameters, body or transport options is a credential.
C27_SecretOnlyInTokenExchange ==
    \A t \in Tasks :
        /\ pc[t] = "token_wait"
             => /\ DOMAIN req[t] = {"method", "url", "data"}
                /\ req[t].url = base_url \o "/token/"
                /\ req[t].data["client_id"] = client_id
                /\ req[t].data["client_secret"] = secret
        /\ pc[t] = "op_wait"
             => LET r == req[t]
                    c == call[t]
                    parts == {r.headers, r.kwargs}
                               \cup (IF r.params = None THEN {} ELSE {r.params})
                               \cup (IF r.json = None THEN {} ELSE {r.json})
                IN  /\ r.url = CASE c.op = "detail" -> base_url \o "/plant/detail/" \o c.pid
                                 [] c.op = "search" ->
                                        base_url \o "/plant/search?alias=" \o c.search_text
                                 [] c.op = "register" -> base_url \o "/sensor-data/instance"
                                 [] c.op = "upload" -> base_url \o "/sensor-data/upload"
                    /\ DOMAIN r.headers = {"Authorization"}
                    /\ \E n \in 1..issued :
                           r.headers["Authorization"] = "Bearer " \o AccessToken(n)
                    /\ \A d \in parts :
                           /\ DOMAIN d \cap CredentialKeys = {}
                           /\ Values(d) \cap {client_id, secret} = {}

C27_Witness ==
    \E t \in Tasks :
        /\ pc[t] = "op_wait"
        /\ call[t].op = "register"
        /\ secret = "secret"
        /\ client_id = "id"
        /\ req[t].json = [location_country |-> "AU", custom_id |-> "B", pid |-> "pid2"]
        /\ req[t].headers = [Authorization |-> "Bearer T1"]

\* C28: client_id, secret and base_url keep the values the constructor was given:
\* no step of a token acquisition or of an operation, ending well or not, changes
\* any of them.
C28_ConstructorValuesKept ==
    [][/\ client_id' = client_id
       /\ secret' = secret
       /\ base_url' = base_url]_vars

C28_Witness ==
    /\ client_id = "id"
    /\ secret = "secret"
    /\ base_url = "https://open.plantbook.io/api/v1"
    /\ calls = 2
    /\ token # None
    /\ last # None
    /\ last.call.op = "upload"
    /\ last.outcome = Raise("PermissionError")

\* C29: a failed token exchange leaves no mark: the coroutine started right after
\* an exchange has failed (with PermissionError or a transport failure), the
\* credential being absent or stale, posts a token exchange of its own; an exchange
\* answered with a complete grant stores that grant as the credential; and no step
\* takes a cached credential away.
C29_FailureNotLatched ==
    [][/\ (/\ HasCreds
           /\ StaleOrAbsent
           /\ last # None
           /\ last.exch = 1
           /\ last.nreq = 0
           /\ last.outcome.kind = "raise")
          => \A t \in Tasks, c \in Calls :
                Invoke(t, c)
                => /\ pc'[t] = "token_wait"
                   /\ exch'[t] = 1
                   /\ req'[t] = TokenRequest(base_url, client_id, secret)
       /\ \A t \in Tasks :
            (pc[t] = "token_wait" /\ pc'[t] # "token_wait")
            => \A r \in TokenReplies(issued) :
                 (GoodGrant(r) /\ TokenReply(t, r))
                 => /\ token' # None
                    /\ token'.access_token = r.body.access_token
                    /\ Fromisoformat(token'.expires) = now + r.body.expires_in
       /\ token # None => token' # None]_vars

C29_Witness ==
    /\ HasCreds
    /\ calls = 2
    /\ pc[1] = "done"
    /\ pc[2] = "token_wait"
    /\ call[2].op = "token"
    /\ issued = 0
    /\ token = None

\* C30: for a caller that awaits one coroutine after the other, a token
\* acquisition that starts right after a call of _async_get_token has ended, the
\* clock not having moved in between, posts no exchange exactly when that call
\* returned True and the credential it left has a lifetime (expires_in) of more
\* than 300 seconds; and with a cached credential whose lifetime is 300 seconds or
\* less every acquisition posts a new exchange, whatever the time.
C30_ReuseIffLifetimeAboveWindow ==
    [][\A t \in Tasks :
          (HasCreds /\ pc[t] = "idle" /\ pc'[t] # "idle")
          => /\ (token # None /\ token.expires_in <= 300)
                  => /\ pc'[t] = "token_wait"
                     /\ exch'[t] = 1
             /\ (/\ last # None
                 /\ last.call.op = "token")
                  => ((pc'[t] # "token_wait" /\ exch'[t] = 0)
                        <=> (/\ last.outcome = True
                             /\ token # None
                             /\ token.expires_in > 300))]_vars

C30_Witness ==
    /\ calls = 2
    /\ ticks = 0
    /\ pc[1] = "done"
    /\ pc[2] = "done"
    /\ issued = 1
    /\ token # None
    /\ token.expires_in = 301
    /\ last # None
    /\ last.call.op = "token"
    /\ last.exch = 0
    /\ last.outcome = True

\* C31: a token exchange answered with a non-empty access_token and no expires_in
\* ends the acquisition with an exception (the KeyError of token["expires_in"]),
\* raised to the caller of _async_get_token or of the operation; nothing of that
\* response is stored and the credential cached before stays as it was.
C31_GrantWithoutLifetimeRaises ==
    [][\A t \in Tasks :
          (pc[t] = "token_wait" /\ pc'[t] # "token_wait")
          => \A r \in TokenReplies(issued) :
               (/\ r.exc = NoneStr
                /\ "access_token" \in DOMAIN r.body
                /\ r.body["access_token"] # ""
                /\ "expires_in" \notin DOMAIN r.body
                /\ TokenReply(t, r))
               => /\ pc'[t] = "done"
                  /\ last' # None
                  /\ last'.outcome = Raise("KeyError")
                  /\ last'.nreq = 0
                  /\ token' = token
                  /\ issued' = issued]_vars

C31_Witness ==
    /\ last # None
    /\ last.call.op = "detail"
    /\ last.outcome = Raise("KeyError")
    /\ last.exch = 1
    /\ token # None
    /\ token.access_token = "CACHED"

\* C32: the cached credential changes only in the step that ends a token exchange
\* with a grant, and then to that grant: the step that ends a request of an
\* operation, whatever the reply (a success, a validation error, a status of 400
\* or more, a transport failure), and the steps that start a coroutine or dispatch
\* its first request leave the credential as it is.
C32_CredentialChangedOnlyByGrant ==
    [][/\ \A t \in Tasks :
            /\ (pc[t] = "op_wait" /\ req'[t] # req[t]) => token' = token
            /\ (pc[t] \in {"idle", "token_ok"} /\ pc'[t] # pc[t]) => token' = token
       /\ token' # token
            => /\ issued' = issued + 1
               /\ token' # None
               /\ token'.access_token = AccessToken(issued')
               /\ \E t \in Tasks :
                      /\ pc[t] = "token_wait"
                      /\ pc'[t] \in {"token_ok", "done"}]_vars

C32_Witness ==
    /\ last # None
    /\ last.call.op = "register"
    /\ last.nreq = 2
    /\ last.outcome.kind = "raise"
    /\ last.outcome.exc = "ClientResponseError"
    /\ token # None
    /\ token.access_token = "T1"

\* C33: the body of every POST of a register call carries the custom_id and pid of
\* the map entry being processed, even when extra_json supplies custom_id or pid;
\* its other keys are the location arguments that are not None together with the
\* keys of extra_json, a key of extra_json taking the place of the location
\* argument of the same name; these other keys depend on the call alone, so they
\* are the same in every POST body of the call.
C33_EntryKeysWinExtraOverridesLocation ==
    \A t \in Tasks :
        (pc[t] = "op_wait" /\ call[t].op = "register")
        => LET c == call[t]
               body == req[t].json
               extra == OrEmpty(c.extra_json)
               args == [location_country |-> c.location_country,
                        location_by_IP |-> c.location_by_ip,
                        location_lon |-> c.location_lon,
                        location_lat |-> c.location_lat]
               others == ({k \in DOMAIN args : args[k] # NoneStr} \cup DOMAIN extra)
                         \ {"custom_id", "pid"}
           IN  /\ body["custom_id"] = c.sensor_pid_map[idx[t]][1]
               /\ body["pid"] = c.sensor_pid_map[idx[t]][2]
               /\ DOMAIN body = others \cup {"custom_id", "pid"}
               /\ \A k \in others :
                      body[k] = IF k \in DOMAIN extra THEN extra[k] ELSE args[k]

C33_Witness ==
    \E t \in Tasks :
        /\ pc[t] = "op_wait"
        /\ call[t].op = "register"
        /\ call[t].extra_json = [custom_id |-> "X", pid |-> "Y"]
        /\ call[t].location_country = "AU"
        /\ idx[t] = 2
        /\ req[t].json = [custom_id |-> "B", pid |-> "pid2", location_country |-> "AU"]

C36_CallerArgumentsUntouched ==
    [][\A t \in Tasks :
          /\ (pc[t] = "idle" /\ pc'[t] # "idle")
             => /\ pc'[t] \in {"token_wait", "op_wait"} => call'[t] \in ArgCalls
                /\ pc'[t] = "done" => last'.call \in ArgCalls
          /\ (\/ pc[t] = "token_wait" /\ pc'[t] # "token_wait"
              \/ pc[t] = "token_ok" /\ pc'[t] # "token_ok"
              \/ pc[t] = "op_wait" /\ req'[t] # req[t])
             => /\ pc'[t] \in {"token_ok", "op_wait"} => call'[t] = call[t]
                /\ pc'[t] = "done" => last' # None /\ last'.call = call[t]]_vars

C36_Witness ==
    /\ last # None
    /\ last.call.op = "detail"
    /\ last.call.lang = "de"
    /\ last.call.params = [page |-> "2"]
    /\ last.exch = 1
    /\ last.nreq = 1
    /\ last.outcome.kind = "return"

\* C35: a register call whose sensor_pid_map has no entry issues no POST; it goes
\* through the token step (a token exchange, or the reuse of a credential that is
\* still valid); once that step has succeeded it opens its session and returns the
\* empty list; it never returns None, and it raises only what the token step raised.
C35_EmptyMapReturnsEmptyList ==
    (/\ last # None
     /\ last.call.op = "register"
     /\ Len(last.call.sensor_pid_map) = 0)
    => /\ last.nreq = 0
       /\ last.outcome # Return(None)
       /\ last.outcome.kind = "raise" => last.sessions = last.exch
       /\ last.outcome.kind = "return"
          => /\ last.outcome = Return(PyList(<<>>))
             /\ last.sessions = last.exch + 1
             /\ last.exch = 0 => TokenIsValid(token, now)

C35_Witness ==
    /\ last # None
    /\ last.call.op = "register"
    /\ Len(last.call.sensor_pid_map) = 0
    /\ last.outcome = Return(PyList(<<>>))
    /\ last.exch = 1
    /\ last.sessions = 2
    /\ last.nreq = 0

====
